---- MODULE Spec2Model ----
(***************************************************************************)
(* Model of the timer synchronisation server (src/server.js, the variant   *)
(* with per-timer viewer capacity, lines 425-931): the Timer class, the    *)
(* process-wide maps and the Socket.IO event handlers.                     *)
(*                                                                         *)
(* Time is in milliseconds, as Date.now() is.  A numeric field of a command *)
(* is a number, undefined (the field is omitted) or null; startTime and    *)
(* interval of a Timer are 0 when null (Date.now() is never 0); a missing  *)
(* string field is "".                                                     *)
(***************************************************************************)
EXTENDS Integers, Sequences, FiniteSets, TLC

\* ---------------------------------------------------------------- bounds
MaxSockets == 2        \* socket connections ever opened
MaxTimers == 2         \* timers ever created (generateId never repeats)
MaxDuration == 2       \* largest duration (seconds) a command supplies
MaxTicks == 6          \* how many half-periods the clock runs

\* ------------------------------------------------------ program constants
Period == 1000                 \* the setInterval period and the ms per second
DefaultMaxConnections == 4     \* maxConnectionsAllowed default
DefaultMaxTimers == 3          \* maxTimersAllowed default

Early == 1                     \* ms by which Date.now() may lag when a callback runs

Step == Period \div 2          \* half a period

\* ------------------------------------------------------------ input sets
SocketIds == 1..MaxSockets
TimerIds == 1..MaxTimers
ControllerIds == {"c1", "c2"}
NoController == ""             \* a falsy controllerId
NoValue == -1                  \* undefined: an omitted numeric field of a command
NullValue == -2                \* null supplied for a numeric field

\* -------------------------------------------------- JS Set / Map helpers
\* A JS Set is kept as the sequence of its members in insertion order.
SetHas(set, x) == \E i \in 1..Len(set) : set[i] = x

SetAdd(set, x) == IF SetHas(set, x) THEN set ELSE Append(set, x)

SetDelete(set, x) == SelectSeq(set, LAMBDA y : y # x)

SetSize(set) == Len(set)

SetMembers(set) == {set[i] : i \in 1..Len(set)}

MapHas(map, k) == k \in DOMAIN map

MapSet(map, k, v) == [x \in (DOMAIN map) \cup {k} |-> IF x = k THEN v ELSE map[x]]

MapDelete(map, k) == [x \in (DOMAIN map) \ {k} |-> map[x]]

\* a ?? b on a numeric command field
Coalesce(a, b) == IF a \in {NoValue, NullValue} THEN b ELSE a

\* (mutant) the supplied value is ignored: always the default
DefaultToIgnored(a, b) == b

\* a destructuring default (field = b): only undefined is replaced
DefaultTo(a, b) == IF a = NoValue THEN b ELSE a

\* the number a comparison converts its operand to: null is 0
ToNumber(a) == IF a = NullValue THEN 0 ELSE a

\* a || b on a string field
OrElse(a, b) == IF a = "" THEN b ELSE a

Max(a, b) == IF a >= b THEN a ELSE b

Abs(a) == IF a < 0 THEN -a ELSE a

\* ------------------------------------------------------------ class Timer
NewTimer(id, name, duration, maxConnectionsAllowed, maxTimersAllowed) ==
  [ id |-> id,
    name |-> name,
    duration |-> duration,
    originalDuration |-> duration,
    remaining |-> duration,
    isRunning |-> FALSE,
    maxConnectionsAllowed |-> Coalesce(maxConnectionsAllowed, DefaultMaxConnections),
    maxTimersAllowed |-> Coalesce(maxTimersAllowed, DefaultMaxTimers),
    startTime |-> 0,
    message |-> "",
    backgroundColor |-> "#1f2937",
    textColor |-> "#ffffff",
    fontSize |-> "text-6xl",
    isFlashing |-> FALSE,
    connectedDevices |-> << >>,
    interval |-> 0,
    controllerId |-> "",
    timerView |-> "normal" ]

GetState(t) ==
  [ id |-> t.id,
    name |-> t.name,
    duration |-> t.duration,
    remaining |-> t.remaining,
    isRunning |-> t.isRunning,
    message |-> t.message,
    backgroundColor |-> t.backgroundColor,
    textColor |-> t.textColor,
    fontSize |-> t.fontSize,
    isFlashing |-> t.isFlashing,
    connectedCount |-> SetSize(t.connectedDevices),
    timerView |-> OrElse(t.timerView, "normal") ]

Msg(to, ev, body) == [to |-> to, ev |-> ev, body |-> body]

\* (mutant) the elapsed seconds rounded up instead of down
ElapsedRoundedUp(t, clock) == (clock - t.startTime + Period - 1) \div Period

\* Math.floor((Date.now() - startTime) / 1000)
Elapsed(t, clock) == (clock - t.startTime) \div Period

\* (mutant) a fan-out that skips a device whose socket no longer resolves
\* and leaves it in the set
RECURSIVE FanoutKeepsStale(_, _, _)
FanoutKeepsStale(r, devices, live) ==
  IF devices = << >> THEN r
  ELSE LET d == Head(devices) IN
       IF d \in live
       THEN FanoutKeepsStale([t |-> r.t,
                              out |-> Append(r.out, Msg(d, "timer-update", GetState(r.t)))],
                             Tail(devices), live)
       ELSE FanoutKeepsStale(r, Tail(devices), live)

\* The fan-out of update(): the forEach over connectedDevices, from the
\* i-th member on.  r is [t, out]; a device whose socket no longer resolves
\* is deleted from the set while the iteration goes on.
RECURSIVE Fanout(_, _, _)
Fanout(r, devices, live) ==
  IF devices = << >> THEN r
  ELSE LET d == Head(devices) IN
       IF d \in live
       THEN Fanout([t |-> r.t,
                    out |-> Append(r.out, Msg(d, "timer-update", GetState(r.t)))],
                   Tail(devices), live)
       ELSE Fanout([t |-> [r.t EXCEPT !.connectedDevices = SetDelete(@, d)],
                    out |-> r.out],
                   Tail(devices), live)

\* (mutant) update() stops the timer once nothing remains
RecomputeStopping(t, clock) ==
  IF t.isRunning /\ t.startTime # 0
  THEN IF t.duration - Elapsed(t, clock) <= 0
       THEN [t EXCEPT !.remaining = 0, !.isRunning = FALSE, !.interval = 0]
       ELSE [t EXCEPT !.remaining = t.duration - Elapsed(t, clock)]
  ELSE t

\* update(): recompute remaining while running, then emit to every device.
Recompute(t, clock) ==
  IF t.isRunning /\ t.startTime # 0
  THEN [t EXCEPT !.remaining = t.duration - Elapsed(t, clock)]
  ELSE t

Update(t, clock, live) ==
  LET t1 == Recompute(t, clock)
  IN Fanout([t |-> t1, out |-> << >>], t1.connectedDevices, live)

\* clearInterval(this.interval); this.interval = null
ClearInterval(t) == [t EXCEPT !.interval = 0]

\* (mutant) start() that keeps the startTime a pause has left
StartResumesClock(t, clock, live) ==
  IF ~t.isRunning /\ t.remaining > 0
  THEN Update([t EXCEPT !.isRunning = TRUE,
                        !.startTime = IF t.startTime # 0 THEN t.startTime ELSE clock,
                        !.interval = clock + Period], clock, live)
  ELSE [t |-> t, out |-> << >>]

\* (mutant) start() without the remaining > 0 guard
StartOverrun(t, clock, live) ==
  IF ~t.isRunning
  THEN Update([t EXCEPT !.isRunning = TRUE,
                        !.startTime = clock,
                        !.interval = clock + Period], clock, live)
  ELSE [t |-> t, out |-> << >>]

\* (mutant) start() without the isRunning guard
StartAlways(t, clock, live) ==
  IF t.remaining > 0
  THEN Update([t EXCEPT !.isRunning = TRUE,
                        !.startTime = clock,
                        !.interval = clock + Period], clock, live)
  ELSE [t |-> t, out |-> << >>]

Start(t, clock, live) ==
  IF ~t.isRunning /\ t.remaining > 0
  THEN Update([t EXCEPT !.isRunning = TRUE,
                        !.startTime = clock,
                        !.interval = clock + Period], clock, live)
  ELSE [t |-> t, out |-> << >>]

\* (mutant) pause() that leaves duration as it is
PauseKeepsDuration(t, clock, live) ==
  IF t.isRunning
  THEN Update(ClearInterval([t EXCEPT !.isRunning = FALSE,
                                      !.remaining = t.duration - Elapsed(t, clock)]),
              clock, live)
  ELSE [t |-> t, out |-> << >>]

\* (mutant) pause() without the Math.abs
PauseSigned(t, clock, live) ==
  IF t.isRunning
  THEN LET rem == t.duration - Elapsed(t, clock)
       IN Update(ClearInterval([t EXCEPT !.isRunning = FALSE,
                                         !.remaining = rem,
                                         !.duration = rem]), clock, live)
  ELSE [t |-> t, out |-> << >>]

Pause(t, clock, live) ==
  IF t.isRunning
  THEN LET rem == t.duration - Elapsed(t, clock)
       IN Update(ClearInterval([t EXCEPT !.isRunning = FALSE,
                                         !.remaining = rem,
                                         !.duration = Abs(rem)]), clock, live)
  ELSE [t |-> t, out |-> << >>]

\* (mutant) reset() without the stored original: remaining = duration
ResetToDuration(t, clock, live) ==
  Update(ClearInterval([t EXCEPT !.isRunning = FALSE,
                                 !.remaining = t.duration,
                                 !.startTime = 0]), clock, live)

Reset(t, clock, live) ==
  Update(ClearInterval([t EXCEPT !.isRunning = FALSE,
                                 !.duration = t.originalDuration,
                                 !.remaining = t.originalDuration,
                                 !.startTime = 0]), clock, live)

SetDuration(t, duration, clock, live) ==
  Update(ClearInterval([t EXCEPT !.duration = duration,
                                 !.originalDuration = duration,
                                 !.remaining = duration,
                                 !.isRunning = FALSE,
                                 !.startTime = 0]), clock, live)

\* (mutant) adjustTime() without the clamp at zero
AdjustTimeUnclamped(t, seconds, clock, later, live) ==
  SetDuration(t, t.duration + seconds, later, live)

\* adjustTime() reads Date.now() itself (clock) and again in update() (later)
AdjustTime(t, seconds, clock, later, live) ==
  LET newDuration == Max(0, t.duration + seconds) IN
  IF t.isRunning
  THEN LET rem == Max(0, newDuration - Elapsed(t, clock))
           t1 == [t EXCEPT !.duration = newDuration, !.remaining = rem]
           t2 == IF rem <= 0
                 THEN [ClearInterval(t1) EXCEPT !.isRunning = FALSE, !.startTime = 0]
                 ELSE t1
       IN Update(t2, later, live)
  ELSE SetDuration(t, newDuration, later, live)

\* (mutant) addDevice() without the update()
AddDeviceSilently(t, deviceId, clock, live) ==
  IF SetSize(t.connectedDevices) < t.maxConnectionsAllowed
  THEN [t |-> [t EXCEPT !.connectedDevices = SetAdd(@, deviceId)],
        out |-> << >>, ok |-> TRUE]
  ELSE [t |-> t, out |-> << >>, ok |-> FALSE]

\* addDevice(): [t, out, ok]
AddDevice(t, deviceId, clock, live) ==
  IF SetSize(t.connectedDevices) < t.maxConnectionsAllowed
  THEN LET r == Update([t EXCEPT !.connectedDevices = SetAdd(@, deviceId)], clock, live)
       IN [t |-> r.t, out |-> r.out, ok |-> TRUE]
  ELSE [t |-> t, out |-> << >>, ok |-> FALSE]

RemoveDevice(t, deviceId, clock, live) ==
  Update([t EXCEPT !.connectedDevices = SetDelete(@, deviceId)], clock, live)

\* (mutant) updateMessage() without the update()
UpdateMessageSilently(t, message, clock, live) ==
  [t |-> [t EXCEPT !.message = message], out |-> << >>]

UpdateMessage(t, message, clock, live) ==
  Update([t EXCEPT !.message = message], clock, live)

ClearMessage(t, clock, live) ==
  Update([t EXCEPT !.message = ""], clock, live)

\* (mutant) updateStyling() that assigns the fields the partial omits as well
UpdateStylingOverwrites(t, styling, clock, live) ==
  Update([t EXCEPT !.backgroundColor = styling.backgroundColor,
                   !.textColor = styling.textColor,
                   !.fontSize = styling.fontSize,
                   !.timerView = styling.timerView], clock, live)

UpdateStyling(t, styling, clock, live) ==
  Update([t EXCEPT !.backgroundColor = OrElse(styling.backgroundColor, @),
                   !.textColor = OrElse(styling.textColor, @),
                   !.fontSize = OrElse(styling.fontSize, @),
                   !.timerView = OrElse(styling.timerView, @)], clock, live)

ToggleFlash(t, isFlashing, clock, live) ==
  Update([t EXCEPT !.isFlashing = isFlashing], clock, live)

\* ------------------------------------------------------------------ state
VARIABLES
  timers,             \* Map timerId -> Timer instance
  detached,           \* Timer instances deleted from the Map whose interval still runs
  deviceToTimer,      \* Map deviceId -> timerId
  controllerTimers,   \* Map controllerId -> Set of timerIds
  controllerToSocket, \* Map controllerId -> Set of socketIds
  sockets,            \* io.sockets.sockets: the connected socket ids
  nextSocket,         \* the id the next connection gets
  nextId,             \* the id generateId() returns next
  now,                \* Date.now()
  outbox              \* what the last step emitted, in order

vars == << timers, detached, deviceToTimer, controllerTimers, controllerToSocket,
           sockets, nextSocket, nextId, now, outbox >>

\* everything but the clock and the emitted messages
data == << timers, detached, deviceToTimer, controllerTimers, controllerToSocket,
           sockets, nextSocket, nextId >>

Init ==
  /\ timers = << >>
  /\ detached = << >>
  /\ deviceToTimer = << >>
  /\ controllerTimers = [c \in ControllerIds |-> << >>]
  /\ controllerToSocket = [c \in ControllerIds |-> << >>]
  /\ sockets = {}
  /\ nextSocket = 1
  /\ nextId = 1
  /\ now = Period
  /\ outbox = << >>

\* ---------------------------------------------------------------- helpers
\* getTimersForController, over a given registry and ownership index
RECURSIVE Summaries(_, _)
Summaries(registry, ids) ==
  IF ids = << >> THEN << >>
  ELSE LET id == Head(ids) IN
       (IF MapHas(registry, id)
        THEN << [ id |-> registry[id].id,
                  name |-> registry[id].name,
                  duration |-> registry[id].duration,
                  connectedCount |-> SetSize(registry[id].connectedDevices) ] >>
        ELSE << >>) \o Summaries(registry, Tail(ids))

\* (mutant) the list is not restricted to the controller's timers
GetTimersOfAll(registry, owned, controllerId) ==
  Summaries(registry, owned["c1"] \o owned["c2"])

GetTimersForController(registry, owned, controllerId) ==
  Summaries(registry, owned[controllerId])

\* emitTimerListForController
TimerList(socket, registry, owned, controllerId) ==
  << Msg(socket, "timer-list", GetTimersForController(registry, owned, controllerId)) >>

\* the limit-exceeded{viewers} fan-out of a rejected join / view
RECURSIVE NotifyController(_, _, _, _)
NotifyController(socketIds, live, timerId, shown) ==
  IF socketIds = << >> THEN << >>
  ELSE (IF Head(socketIds) \in live
        THEN << Msg(Head(socketIds), "limit-exceeded",
                    [timerId |-> timerId, type |-> "viewers", max |-> shown]) >>
        ELSE << >>) \o NotifyController(Tail(socketIds), live, timerId, shown)

\* (mutant) only the first device is told of the deletion
NotifyDeletedFirst(devices, live, timerId) ==
  IF devices # << >> /\ Head(devices) \in live
  THEN << Msg(Head(devices), "timer-deleted", [timerId |-> timerId]) >>
  ELSE << >>

\* the timer-deleted fan-out of delete-timer
RECURSIVE NotifyDeleted(_, _, _)
NotifyDeleted(devices, live, timerId) ==
  IF devices = << >> THEN << >>
  ELSE (IF Head(devices) \in live
        THEN << Msg(Head(devices), "timer-deleted", [timerId |-> timerId]) >>
        ELSE << >>) \o NotifyDeleted(Tail(devices), live, timerId)

\* deviceToTimer.delete(deviceId) for every device of a set
RECURSIVE DeleteAll(_, _)
DeleteAll(map, keys) ==
  IF keys = << >> THEN map ELSE DeleteAll(MapDelete(map, Head(keys)), Tail(keys))

\* (mutant) the owner is not compared with the supplied identity
AuthorizedAnyController(timerId, controllerId) ==
  /\ controllerId # NoController
  /\ MapHas(timers, timerId)

\* the guard of every control handler: timer && timer.controllerId === controllerId
Authorized(timerId, controllerId) ==
  /\ controllerId # NoController
  /\ MapHas(timers, timerId)
  /\ timers[timerId].controllerId = controllerId

Dropped == outbox' = << >> /\ UNCHANGED << data, now >>

\* --------------------------------------------------------------- handlers
Connect ==
  /\ sockets' = sockets \cup {nextSocket}
  /\ nextSocket' = nextSocket + 1
  /\ outbox' = << >>
  /\ UNCHANGED << timers, detached, deviceToTimer, controllerTimers,
                  controllerToSocket, nextId, now >>

\* (mutant) an admitted socket is tracked under the identity of the owner
TrackedUnderOwner(timer, controllerId) == timer.controllerId

\* the identity an admitted socket is tracked under: the supplied one
TrackedUnder(timer, controllerId) == controllerId

\* (mutant) the rejection notifies the sockets of the supplied identity
NotifiedSupplied(timer, controllerId) == controllerToSocket[controllerId]

\* whose sockets a rejected join / view notifies: those of the timer's owner
Notified(timer, controllerId) == controllerToSocket[timer.controllerId]

\* the part join-timer and view-timer share; join refreshes the owner's list
\* and reports the capacity, view reports the capacity less one
Admit(s, timerId, controllerId, maxConnectionsAllowed, isJoin) ==
  /\ s \in sockets
  /\ IF controllerId = NoController THEN Dropped
     ELSE IF ~MapHas(timers, timerId)
     THEN /\ outbox' = << Msg(s, "timer-not-found", [timerId |-> timerId]) >>
          /\ UNCHANGED << data, now >>
     ELSE LET timer == [timers[timerId] EXCEPT
                          !.maxConnectionsAllowed = Coalesce(maxConnectionsAllowed, @)]
              r == AddDevice(timer, s, now, sockets)
          IN IF r.ok
             THEN /\ timers' = [timers EXCEPT ![timerId] = r.t]
                  /\ deviceToTimer' = MapSet(deviceToTimer, s, timerId)
                  /\ controllerToSocket' =
                       [controllerToSocket EXCEPT
                          ![TrackedUnder(r.t, controllerId)] = SetAdd(@, s)]
                  /\ outbox' = r.out
                       \o << Msg(s, "timer-joined", GetState(r.t)) >>
                       \o (IF isJoin /\ r.t.controllerId = controllerId
                           THEN TimerList(s, timers', controllerTimers, controllerId)
                           ELSE << >>)
                  /\ UNCHANGED << detached, controllerTimers, sockets, nextSocket,
                                  nextId, now >>
             ELSE /\ timers' = [timers EXCEPT ![timerId] = timer]
                  /\ outbox' =
                       << Msg(s, "timer-full",
                              [timerId |-> timerId, failedSocketId |-> s,
                               isgood |-> ~isJoin]) >>
                       \o NotifyController(Notified(timer, controllerId),
                                           sockets, timerId,
                                           IF isJoin THEN timer.maxConnectionsAllowed
                                           ELSE timer.maxConnectionsAllowed - 1)
                  /\ UNCHANGED << detached, deviceToTimer, controllerTimers,
                                  controllerToSocket, sockets, nextSocket, nextId, now >>

JoinTimer(s, timerId, controllerId, maxConnectionsAllowed) ==
  Admit(s, timerId, controllerId, maxConnectionsAllowed, TRUE)

ViewTimer(s, timerId, controllerId, maxConnectionsAllowed) ==
  Admit(s, timerId, controllerId, maxConnectionsAllowed, FALSE)

CreateTimer(s, name, duration, maxConnectionsAllowed, maxTimersAllowed, controllerId, styling) ==
  /\ s \in sockets
  /\ IF controllerId = NoController THEN Dropped
     ELSE IF SetSize(controllerTimers[controllerId])
               >= ToNumber(DefaultTo(maxTimersAllowed, DefaultMaxTimers))
     THEN /\ outbox' = << Msg(s, "limit-exceeded",
                              [timerId |-> 0, type |-> "timers",
                               max |-> DefaultTo(maxTimersAllowed, DefaultMaxTimers)]) >>
          /\ UNCHANGED << data, now >>
     ELSE LET timerId == nextId
              made == NewTimer(timerId, name, duration,
                               DefaultTo(maxConnectionsAllowed, DefaultMaxConnections),
                               DefaultTo(maxTimersAllowed, DefaultMaxTimers))
              timer == [made EXCEPT
                          !.controllerId = controllerId,
                          !.backgroundColor = OrElse(styling.backgroundColor, @),
                          !.textColor = OrElse(styling.textColor, @),
                          !.fontSize = OrElse(styling.fontSize, @),
                          !.timerView = OrElse(styling.timerView, "normal")]
              r == AddDevice(timer, s, now, sockets)
          IN /\ nextId' = nextId + 1
             /\ timers' = MapSet(timers, timerId, r.t)
             /\ controllerTimers' =
                  [controllerTimers EXCEPT ![controllerId] = SetAdd(@, timerId)]
             /\ deviceToTimer' = MapSet(deviceToTimer, s, timerId)
             /\ controllerToSocket' =
                  [controllerToSocket EXCEPT ![controllerId] = SetAdd(@, s)]
             /\ outbox' = r.out
                  \o TimerList(s, timers', controllerTimers', controllerId)
                  \o << Msg(s, "timer-created", GetState(r.t)) >>
             /\ UNCHANGED << detached, sockets, nextSocket, now >>

GetTimers(s, controllerId) ==
  /\ s \in sockets
  /\ IF controllerId = NoController THEN Dropped
     ELSE /\ outbox' = TimerList(s, timers, controllerTimers, controllerId)
          /\ UNCHANGED << data, now >>

\* (mutant) delete-timer without the clearInterval
DiscardRunning(timer) ==
  IF timer.interval = 0 THEN << >> ELSE MapSet(<< >>, timer.id, timer)

\* what delete-timer leaves of the Timer instance: with its interval cleared
\* nothing refers to it any more
Discard(timer) ==
  LET t == ClearInterval(timer)
  IN IF t.interval = 0 THEN << >> ELSE MapSet(<< >>, t.id, t)

DeleteTimer(s, timerId, controllerId) ==
  /\ s \in sockets
  /\ IF ~Authorized(timerId, controllerId) THEN Dropped
     ELSE LET timer == timers[timerId]
              left == Discard(timer)
          IN /\ deviceToTimer' = DeleteAll(deviceToTimer, timer.connectedDevices)
             /\ timers' = MapDelete(timers, timerId)
             /\ detached' = [x \in (DOMAIN detached) \cup (DOMAIN left) |->
                               IF x \in DOMAIN left THEN left[x] ELSE detached[x]]
             /\ controllerTimers' =
                  [controllerTimers EXCEPT ![controllerId] = SetDelete(@, timerId)]
             /\ outbox' = NotifyDeleted(timer.connectedDevices, sockets, timerId)
                  \o TimerList(s, timers', controllerTimers', controllerId)
             /\ UNCHANGED << controllerToSocket, sockets, nextSocket, nextId, now >>

\* the shape of the nine control handlers: r is what the Timer method
\* returns, clock the last Date.now() it read
Control(s, timerId, controllerId, r, clock) ==
  /\ s \in sockets
  /\ IF ~Authorized(timerId, controllerId) THEN Dropped
     ELSE /\ timers' = [timers EXCEPT ![timerId] = r.t]
          /\ outbox' = r.out \o TimerList(s, timers', controllerTimers, controllerId)
          /\ now' = clock
          /\ UNCHANGED << detached, deviceToTimer, controllerTimers,
                          controllerToSocket, sockets, nextSocket, nextId >>

\* the Timer a control command addresses (any Timer when there is none: unused)
Target(timerId) ==
  IF MapHas(timers, timerId) THEN timers[timerId] ELSE NewTimer(0, "", 0, NoValue, NoValue)

SetTimer(s, timerId, duration, controllerId) ==
  Control(s, timerId, controllerId, SetDuration(Target(timerId), duration, now, sockets), now)

StartTimer(s, timerId, controllerId) ==
  Control(s, timerId, controllerId, Start(Target(timerId), now, sockets), now)

PauseTimer(s, timerId, controllerId) ==
  Control(s, timerId, controllerId, Pause(Target(timerId), now, sockets), now)

ResetTimer(s, timerId, controllerId) ==
  Control(s, timerId, controllerId, Reset(Target(timerId), now, sockets), now)

\* the Date.now() a later statement of the same handler can read: the same
\* millisecond or the next, which may begin a new second
LaterReads(clock) ==
  IF clock % Period = Period - Early THEN {clock, clock + Early} ELSE {clock}

\* adjustTime() gets as far as the Date.now() of update(): the timer is
\* running and the first read has not ended it
ReadsAgain(t, seconds, clock) ==
  t.isRunning /\ Max(0, t.duration + seconds) - Elapsed(t, clock) > 0

AdjustTimer(s, timerId, seconds, controllerId) ==
  \E later \in (IF ReadsAgain(Target(timerId), seconds, now)
                THEN LaterReads(now) ELSE {now}) :
    Control(s, timerId, controllerId,
            AdjustTime(Target(timerId), seconds, now, later, sockets), later)

UpdateMessageCmd(s, timerId, message, controllerId) ==
  Control(s, timerId, controllerId, UpdateMessage(Target(timerId), message, now, sockets), now)

ClearMessageCmd(s, timerId, controllerId) ==
  Control(s, timerId, controllerId, ClearMessage(Target(timerId), now, sockets), now)

UpdateStylingCmd(s, timerId, styling, controllerId) ==
  Control(s, timerId, controllerId, UpdateStyling(Target(timerId), styling, now, sockets), now)

ToggleFlashCmd(s, timerId, isFlashing, controllerId) ==
  Control(s, timerId, controllerId, ToggleFlash(Target(timerId), isFlashing, now, sockets), now)

\* socketIds.delete(socket.id) under every controller (an emptied entry is
\* deleted from the Map: the empty set stands for the absent key)
Untrack(index, s) == [c \in DOMAIN index |-> SetDelete(index[c], s)]

\* the socket leaves io.sockets.sockets, then its disconnect handler runs
Disconnect(s) ==
  /\ s \in sockets
  /\ sockets' = sockets \ {s}
  /\ IF MapHas(deviceToTimer, s)
     THEN LET timerId == deviceToTimer[s] IN
          /\ IF MapHas(timers, timerId)
             THEN LET r == RemoveDevice(timers[timerId], s, now, sockets')
                  IN timers' = [timers EXCEPT ![timerId] = r.t] /\ outbox' = r.out
             ELSE timers' = timers /\ outbox' = << >>
          /\ deviceToTimer' = MapDelete(deviceToTimer, s)
     ELSE /\ outbox' = << >>
          /\ UNCHANGED << timers, deviceToTimer >>
  /\ controllerToSocket' = Untrack(controllerToSocket, s)
  /\ UNCHANGED << detached, controllerTimers, nextSocket, nextId, now >>

\* the setInterval callback of a Timer: interval holds the time it is due.
\* The event loop runs it when due by its own clock, which Date.now() may
\* lag by a millisecond, or any time later.
Due(t) == t.interval # 0 /\ t.interval - Early <= now

\* (mutant) a callback that is scheduled once, as by setTimeout
RearmOnce(t, ran) == [t EXCEPT !.interval = 0]

\* the callback is due again one period after the event loop took it up
Rearm(t, ran) == [t EXCEPT !.interval = ran + Period]

\* when the event loop can have taken up the callback whose update() reads
\* clock: from the moment it was due until that read
TakenUp(t, clock) ==
  {k \in (t.interval - Early)..Max(clock, t.interval) :
     k % Period \in {0, Period - Early}}

Tick(timerId) ==
  LET inMap == MapHas(timers, timerId)
      timer == IF inMap THEN timers[timerId] ELSE detached[timerId]
  IN /\ timerId \in (DOMAIN timers) \cup (DOMAIN detached)
     /\ Due(timer)
     /\ \E ran \in TakenUp(timer, now) :
          LET r == Update(Rearm(timer, ran), now, sockets)
          IN /\ timers' = IF inMap THEN [timers EXCEPT ![timerId] = r.t] ELSE timers
             /\ detached' = IF inMap THEN detached ELSE [detached EXCEPT ![timerId] = r.t]
             /\ outbox' = r.out
     /\ UNCHANGED << deviceToTimer, controllerTimers, controllerToSocket,
                     sockets, nextSocket, nextId, now >>

\* Date.now() is read at a later time, whether or not a callback is due
AdvanceTime(to) ==
  /\ to > now
  /\ now' = to
  /\ outbox' = << >>
  /\ UNCHANGED data

\* ----------------------------------------------------------- environment
NoStyling == [backgroundColor |-> "", textColor |-> "", fontSize |-> "", timerView |-> ""]

\* The clients of the router specification: two connections, two timers and
\* two controller identities, of which "c1" also sends the control commands
\* (commands without an identity are left to the countdown specification).
\* They create timers of duration 0, which never start, so that no interval
\* callback is ever scheduled there.
RouterEnv ==
  [ maxSockets |-> MaxSockets,
    maxTimers |-> MaxTimers,
    maxTicks |-> 0,
    maxDuration |-> 0,
    controllers |-> ControllerIds,
    drivers |-> {"c1"},
    durations |-> {0},
    capacities |-> {NoValue, 1},
    quotas |-> {NoValue},
    deltas |-> {-1},
    messages |-> {""},
    stylings |-> {NoStyling},
    flashes |-> {FALSE} ]

\* The clients of the countdown specification: one connection that creates
\* one timer and drives it while the clock runs.
TimerEnv ==
  [ maxSockets |-> 1,
    maxTimers |-> 1,
    maxTicks |-> MaxTicks,
    maxDuration |-> MaxDuration,
    controllers |-> ControllerIds \cup {NoController},
    drivers |-> ControllerIds \cup {NoController},
    durations |-> 0..MaxDuration,
    capacities |-> {NoValue},
    quotas |-> {NoValue},
    deltas |-> {-MaxDuration, -1, 1},
    messages |-> {""},
    stylings |-> {NoStyling},
    flashes |-> {FALSE} ]

\* The clients of the viewers specification: two connections on one timer of
\* one controller, driven while the clock runs.
ViewerEnv ==
  [ maxSockets |-> MaxSockets,
    maxTimers |-> 1,
    maxTicks |-> 4,
    maxDuration |-> 1,
    controllers |-> {"c1"},
    drivers |-> {"c1"},
    durations |-> {1},
    capacities |-> {NoValue},
    quotas |-> {NoValue},
    deltas |-> {-1},
    messages |-> {"Hi"},
    stylings |-> {[NoStyling EXCEPT !.textColor = "#000000"]},
    flashes |-> {TRUE} ]

\* The clients of the ticker specification: those of the viewers
\* specification, who leave the message, the styling and the flashing as
\* they are.
TickerEnv ==
  [ViewerEnv EXCEPT !.messages = {""}, !.stylings = {NoStyling}, !.flashes = {FALSE}]

\* The clients of the admission specification: those of the router
\* specification, on a single timer, who also supply null and 0 as capacity.
AdmissionEnv ==
  [RouterEnv EXCEPT !.maxTimers = 1, !.capacities = {NoValue, NullValue, 0, 1}]

\* The clients of the quota specification: one connection that creates and
\* deletes timers for two controllers, supplying null, 0, 1 or 2 as quota.
QuotaEnv ==
  [ maxSockets |-> 1,
    maxTimers |-> 3,
    maxTicks |-> 0,
    maxDuration |-> 0,
    controllers |-> ControllerIds,
    drivers |-> {"c1"},
    durations |-> {0},
    capacities |-> {NoValue},
    quotas |-> {NullValue, 0, 1, 2},
    deltas |-> {-1},
    messages |-> {""},
    stylings |-> {NoStyling},
    flashes |-> {FALSE} ]

CreateAdmitted(controllerId, maxTimersAllowed) ==
  /\ controllerId # NoController
  /\ SetSize(controllerTimers[controllerId])
       < ToNumber(DefaultTo(maxTimersAllowed, DefaultMaxTimers))

\* the socket event handlers, on what the environment E sends
Handlers(E) ==
  \/ nextSocket <= E.maxSockets /\ Connect
  \/ \E s \in sockets : Disconnect(s)
  \/ \E s \in sockets, c \in E.controllers, d \in E.durations, cap \in E.capacities,
        q \in E.quotas, st \in E.stylings :
       /\ CreateAdmitted(c, q) => nextId <= E.maxTimers
       /\ CreateTimer(s, "Demo", d, cap, q, c, st)
  \/ \E s \in sockets, id \in 1..E.maxTimers, c \in E.controllers, cap \in E.capacities :
       JoinTimer(s, id, c, cap)
  \/ \E s \in sockets, id \in 1..E.maxTimers, c \in E.controllers, cap \in E.capacities :
       ViewTimer(s, id, c, cap)
  \/ \E s \in sockets, c \in E.controllers : GetTimers(s, c)
  \/ \E s \in sockets, id \in 1..E.maxTimers, c \in E.controllers : DeleteTimer(s, id, c)
  \/ \E s \in sockets, id \in 1..E.maxTimers, c \in E.drivers, n \in E.deltas :
       /\ Authorized(id, c) => timers[id].duration + n <= E.maxDuration
       /\ AdjustTimer(s, id, n, c)
  \/ \E s \in sockets, id \in 1..E.maxTimers, c \in E.drivers, d \in E.durations :
       SetTimer(s, id, d, c)
  \/ \E s \in sockets, id \in 1..E.maxTimers, c \in E.drivers : StartTimer(s, id, c)
  \/ \E s \in sockets, id \in 1..E.maxTimers, c \in E.drivers : PauseTimer(s, id, c)
  \/ \E s \in sockets, id \in 1..E.maxTimers, c \in E.drivers : ResetTimer(s, id, c)
  \/ \E s \in sockets, id \in 1..E.maxTimers, c \in E.drivers, m \in E.messages :
       UpdateMessageCmd(s, id, m, c)
  \/ \E s \in sockets, id \in 1..E.maxTimers, c \in E.drivers : ClearMessageCmd(s, id, c)
  \/ \E s \in sockets, id \in 1..E.maxTimers, c \in E.drivers, st \in E.stylings :
       UpdateStylingCmd(s, id, st, c)
  \/ \E s \in sockets, id \in 1..E.maxTimers, c \in E.drivers, f \in E.flashes :
       ToggleFlashCmd(s, id, f, c)

\* the instants of the modelled clock: every full period and Early before
\* it, over E.maxTicks half-periods
Instants(E) ==
  {k \in Period..(Period + E.maxTicks * Step) : k % Period \in {0, Period - Early}}

\* the interval callbacks and the passing of time
Clock(E) ==
  \/ \E id \in 1..E.maxTimers : Tick(id)
  \/ \E to \in Instants(E) : AdvanceTime(to)

Next == Handlers(RouterEnv)

Spec == Init /\ [][Next]_vars

NextTimer == Handlers(TimerEnv) \/ Clock(TimerEnv)

SpecTimer == Init /\ [][NextTimer]_vars

NextAdmission == Handlers(AdmissionEnv)

SpecAdmission == Init /\ [][NextAdmission]_vars

NextQuota == Handlers(QuotaEnv)

SpecQuota == Init /\ [][NextQuota]_vars

NextViewers == Handlers(ViewerEnv) \/ Clock(ViewerEnv)

SpecViewers == Init /\ [][NextViewers]_vars

NextTicker == Handlers(TickerEnv) \/ Clock(TickerEnv)

SpecTicker == Init /\ [][NextTicker]_vars

\* the event loop runs a due interval callback, and time passes, whatever
\* commands keep arriving
FairSpecTicker == SpecTicker /\ WF_vars(Clock(TickerEnv))

\* ------------------------------------------------------- claims: helpers
Viewers(id) == SetMembers(timers[id].connectedDevices)

OwnedBy(registry, c) == {id \in DOMAIN registry : registry[id].controllerId = c}

ListedIds(list) == {list[i].id : i \in 1..Len(list)}

Sent(box, ev) == {i \in 1..Len(box) : box[i].ev = ev}

Receivers(box, ev) == {box[i].to : i \in Sent(box, ev)}

AllControllers == ControllerIds \cup {NoController}

Unauthorized(id, c) ==
  c = NoController \/ ~MapHas(timers, id) \/ timers[id].controllerId # c

\* a step of one of the ten mutating handlers
MutatingCommand(s, id, c) ==
  \/ StartTimer(s, id, c)
  \/ PauseTimer(s, id, c)
  \/ ResetTimer(s, id, c)
  \/ DeleteTimer(s, id, c)
  \/ ClearMessageCmd(s, id, c)
  \/ \E d \in TimerEnv.durations : SetTimer(s, id, d, c)
  \/ \E n \in TimerEnv.deltas : AdjustTimer(s, id, n, c)
  \/ \E m \in TimerEnv.messages : UpdateMessageCmd(s, id, m, c)
  \/ \E st \in TimerEnv.stylings : UpdateStylingCmd(s, id, st, c)
  \/ \E f \in TimerEnv.flashes : ToggleFlashCmd(s, id, f, c)

\* ------------------------------------------------------------------ C1
\* C1: every timer of the registry has at most maxConnectionsAllowed
\* connected devices, in every reachable state.
C1_ViewersWithinCapacity ==
  \A id \in DOMAIN timers :
    SetSize(timers[id].connectedDevices) <= timers[id].maxConnectionsAllowed

\* ------------------------------------------------------------------ C2
\* C2: the timer-list answering get-timers{controllerId: c} lists exactly the
\* timers of the registry whose owner is c, each once.
C2_GetTimersScoped ==
  [][\A s \in sockets, c \in ControllerIds :
       (outbox' # << >> /\ data' = data /\ GetTimers(s, c)) =>
         /\ Len(outbox') = 1
         /\ outbox'[1].to = s
         /\ outbox'[1].ev = "timer-list"
         /\ ListedIds(outbox'[1].body) = OwnedBy(timers, c)
         /\ Len(outbox'[1].body) = Cardinality(OwnedBy(timers, c))]_vars

\* a list of c's timers has just been sent while a socket tracked under c is
\* a viewer of another controller's timer
C2_Witness ==
  \E c \in ControllerIds, other \in DOMAIN timers, d \in sockets :
    /\ Len(outbox) = 1
    /\ outbox[1].ev = "timer-list"
    /\ outbox[1].body # << >>
    /\ outbox[1].body = GetTimersForController(timers, controllerTimers, c)
    /\ timers[other].controllerId # c
    /\ SetHas(timers[other].connectedDevices, d)
    /\ SetHas(controllerToSocket[c], d)

\* ------------------------------------------------------------------ C3
\* C3: a mutating command with an empty controller identity, with an identity
\* that is not the timer's owner, or for a timer that does not exist changes
\* nothing and emits nothing.
C3_UnauthorizedDropped ==
  [][\/ (outbox' = << >> /\ UNCHANGED << data, now >>)
     \/ \A s \in sockets, id \in TimerIds, c \in AllControllers :
          ~(Unauthorized(id, c) /\ MutatingCommand(s, id, c))]_vars

\* nothing was emitted while a running timer with a viewer exists whose owner
\* is not the identity its socket is also tracked under
C3_Witness ==
  \E id \in DOMAIN timers, c \in ControllerIds :
    /\ outbox = << >>
    /\ timers[id].isRunning
    /\ timers[id].connectedDevices # << >>
    /\ timers[id].controllerId # c
    /\ controllerToSocket[c] # << >>

\* ------------------------------------------------------------------ C4
\* C4: reset() restores duration and remaining to the value of the most
\* recent set-timer or of creation: only set-timer changes the value reset()
\* restores, whatever adjust-timer commands come in between.
C4_ResetRestoresLastSet ==
  [][\A id \in (DOMAIN timers) \cap (DOMAIN timers'), s \in sockets, c \in ControllerIds :
       /\ \A n \in TimerEnv.deltas :
            (Authorized(id, c) /\ AdjustTimer(s, id, n, c)) =>
              timers'[id].originalDuration = timers[id].originalDuration
       /\ (Authorized(id, c) /\ ResetTimer(s, id, c)) =>
            /\ timers'[id].duration = timers[id].originalDuration
            /\ timers'[id].remaining = timers[id].originalDuration]_vars

\* ------------------------------------------------------------------ C5
\* C5: the join-timer that follows the creation of a timer of capacity 1 is
\* answered with timer-joined.
C5_FirstJoinAdmitted ==
  [][\A s \in SocketIds, id \in TimerIds, c \in ControllerIds :
       ( /\ MapHas(timers, id)
         /\ timers[id].maxConnectionsAllowed = 1
         /\ \E i \in Sent(outbox, "timer-created") : outbox[i].body.id = id
         /\ JoinTimer(s, id, c, NoValue) ) =>
         \E i \in Sent(outbox', "timer-joined") : outbox'[i].to = s]_vars

\* ------------------------------------------------------------------ C6
\* C6: a join or view rejected for capacity sends exactly one timer-full, to
\* the requester, and one limit-exceeded{viewers} to each connected socket
\* tracked under the identity of the timer's owner, and to nobody else.
C6_RejectionNotifiesOwner ==
  \A i \in Sent(outbox, "timer-full") :
    LET id == outbox[i].body.timerId
        owner == timers[id].controllerId
        tracked == SetMembers(controllerToSocket[owner]) \cap sockets
    IN /\ Sent(outbox, "timer-full") = {i}
       /\ outbox[i].to = outbox[i].body.failedSocketId
       /\ Receivers(outbox, "limit-exceeded") = tracked
       /\ Cardinality(Sent(outbox, "limit-exceeded")) = Cardinality(tracked)
       /\ \A j \in Sent(outbox, "limit-exceeded") :
            outbox[j].body.type = "viewers" /\ outbox[j].body.timerId = id
       /\ Sent(outbox, "timer-update") = {}
       /\ Sent(outbox, "timer-joined") = {}

\* a rejection notified the owner's socket while the rejected socket is
\* tracked under another identity only
C6_Witness ==
  \E i \in Sent(outbox, "timer-full") :
    LET id == outbox[i].body.timerId
        owner == timers[id].controllerId
    IN /\ Receivers(outbox, "limit-exceeded") # {}
       /\ outbox[i].to \notin Receivers(outbox, "limit-exceeded")
       /\ \E c \in ControllerIds \ {owner} : SetHas(controllerToSocket[c], outbox[i].to)

\* ------------------------------------------------------------------ C7
\* C7: a delete-timer of the owner sends timer-deleted to each connected
\* viewer of the timer, removes the timer from the registry and from the
\* owner's list, and no later list of any controller names it.
C7_DeleteNotifiesAndRemoves ==
  [][/\ \A id \in (DOMAIN timers) \ (DOMAIN timers') :
          /\ \E s \in SocketIds : DeleteTimer(s, id, timers[id].controllerId)
          /\ Receivers(outbox', "timer-deleted") = Viewers(id) \cap sockets
          /\ Cardinality(Sent(outbox', "timer-deleted"))
               = Cardinality(Viewers(id) \cap sockets)
          /\ \A j \in Sent(outbox', "timer-deleted") : outbox'[j].body.timerId = id
          /\ ~SetHas(controllerTimers'[timers[id].controllerId], id)
          /\ \A j \in Sent(outbox', "timer-list") : id \notin ListedIds(outbox'[j].body)
     /\ \A s \in sockets, id \in DOMAIN timers :
          (outbox' # << >> /\ DeleteTimer(s, id, timers[id].controllerId)) =>
            ~MapHas(timers', id)
     /\ \A id \in 1..(nextId - 1) :
          (~MapHas(timers, id) /\ (controllerTimers' # controllerTimers
                                   \/ DOMAIN timers' # DOMAIN timers)) =>
            /\ ~MapHas(timers', id)
            /\ \A c \in ControllerIds :
                 id \notin ListedIds(GetTimersForController(timers', controllerTimers', c))]_vars

\* a timer with two connected viewers has just been deleted
C7_Witness ==
  /\ Cardinality(Receivers(outbox, "timer-deleted")) = 2
  /\ \E j \in Sent(outbox, "timer-deleted") : ~MapHas(timers, outbox[j].body.timerId)
  /\ Sent(outbox, "timer-list") # {}

\* ------------------------------------------------------------------ C8
\* C8: a socket is a connected device of at most one timer.
C8_AtMostOneTimer ==
  \A s \in SocketIds :
    Cardinality({id \in DOMAIN timers : SetHas(timers[id].connectedDevices, s)}) <= 1

\* ------------------------------------------------------------------ C9
\* C9: a socket that has disconnected is a connected device of no timer, has
\* no deviceToTimer entry and is tracked under no controller.
C9_DisconnectForgets ==
  \A s \in 1..(nextSocket - 1) :
    s \notin sockets =>
      /\ \A id \in DOMAIN timers : ~SetHas(timers[id].connectedDevices, s)
      /\ ~MapHas(deviceToTimer, s)
      /\ \A c \in ControllerIds : ~SetHas(controllerToSocket[c], s)

\* ----------------------------------------------------------------- C10
\* the whole seconds a run has lasted, and whether it has lasted just that
SecondsRun(t) == (now - t.startTime) \div Period

OnTheSecond(t) == (now - t.startTime) % Period = 0

\* C10: with d the duration a timer was created with, start gives running and
\* remaining = d; the tick that runs k seconds after the start gives
\* remaining = d - k; a pause while the k-th second lasts (k < d) gives not
\* running, remaining = d - k and duration = d - k; a reset gives duration =
\* d and remaining = d.
C10_StartTickPauseReset ==
  [][\A id \in (DOMAIN timers) \cap (DOMAIN timers') :
       LET t == timers[id]
           t2 == timers'[id]
           d == t.originalDuration
       IN /\ (Tick(id) /\ t.isRunning /\ t.duration = d /\ OnTheSecond(t)) =>
               /\ t2.isRunning
               /\ t2.duration = d
               /\ t2.remaining = d - SecondsRun(t)
          /\ \A s \in sockets, c \in ControllerIds :
               /\ ( /\ Authorized(id, c) /\ StartTimer(s, id, c)
                    /\ ~t.isRunning /\ d > 0 /\ t.duration = d /\ t.remaining = d ) =>
                    (t2.isRunning /\ t2.duration = d /\ t2.remaining = d)
               /\ ( /\ Authorized(id, c) /\ PauseTimer(s, id, c)
                    /\ t.isRunning /\ t.duration = d /\ SecondsRun(t) < d ) =>
                    /\ ~t2.isRunning
                    /\ t2.remaining = d - SecondsRun(t)
                    /\ t2.duration = d - SecondsRun(t)
                    /\ t2.originalDuration = d
               /\ ( /\ Authorized(id, c) /\ ResetTimer(s, id, c)) =>
                    (t2.duration = d /\ t2.remaining = d)]_vars

\* a timer created with duration 2 was started and then paused a second or
\* more later
C10_Witness ==
  \E id \in DOMAIN timers :
    /\ ~timers[id].isRunning
    /\ timers[id].startTime # 0
    /\ now >= timers[id].startTime + Period
    /\ timers[id].originalDuration = 2
    /\ timers[id].duration = 1
    /\ timers[id].remaining = 1
    /\ \E i \in Sent(outbox, "timer-update") :
         ~outbox[i].body.isRunning /\ outbox[i].body.remaining = 1

\* ----------------------------------------------------------------- C11
\* C11: a pause at zero elapsed seconds of a timer that was started with
\* remaining = duration > 0 leaves remaining and duration as they were before
\* the start, and the timer not running.
C11_StartPauseKeeps ==
  [][\A id \in (DOMAIN timers) \cap (DOMAIN timers'), s \in sockets, c \in ControllerIds :
       LET t == timers[id]
           t2 == timers'[id]
       IN /\ ( /\ Authorized(id, c) /\ StartTimer(s, id, c)
               /\ ~t.isRunning /\ t.remaining > 0 /\ t.remaining = t.duration ) =>
               /\ t2.isRunning
               /\ t2.remaining = t.remaining
               /\ t2.duration = t.duration
               /\ t2.startTime = now
          /\ ( /\ Authorized(id, c) /\ PauseTimer(s, id, c)
               /\ t.isRunning /\ now - t.startTime < Period
               /\ t.remaining = t.duration ) =>
               /\ ~t2.isRunning
               /\ t2.remaining = t.remaining
               /\ t2.duration = t.duration
               /\ \A i \in Sent(outbox', "timer-update") :
                    /\ ~outbox'[i].body.isRunning
                    /\ outbox'[i].body.remaining = t.remaining
                    /\ outbox'[i].body.duration = t.duration]_vars

\* a timer has just been paused within a second of its start, with its
\* remaining and duration still the 2 seconds it was started with
C11_Witness ==
  \E id \in DOMAIN timers :
    /\ ~timers[id].isRunning
    /\ timers[id].startTime # 0
    /\ now = timers[id].startTime + Period - Early
    /\ timers[id].remaining = 2
    /\ timers[id].duration = 2
    /\ \E i \in Sent(outbox, "timer-update") :
         ~outbox[i].body.isRunning /\ outbox[i].body.remaining = 2

\* ----------------------------------------------------------------- C12
\* C12: on a timer that is not running, adjust-timer by -delta with delta
\* greater than the duration d gives duration 0, and adjustTime(+delta) on
\* the result gives duration delta, not d.
C12_ClampNotReversible ==
  [][\A id \in (DOMAIN timers) \cap (DOMAIN timers'), s \in sockets, c \in ControllerIds,
        n \in TimerEnv.deltas :
       ( /\ Authorized(id, c) /\ AdjustTimer(s, id, n, c)
         /\ ~timers[id].isRunning /\ n < 0 /\ -n > timers[id].duration ) =>
         LET back == AdjustTime(timers'[id], -n, now, now, sockets).t
         IN /\ timers'[id].duration = 0
            /\ timers'[id].remaining = 0
            /\ \A i \in Sent(outbox', "timer-update") : outbox'[i].body.duration = 0
            /\ back.duration = -n
            /\ back.duration # timers[id].duration]_vars

\* an idle timer whose duration, original duration and remaining are 0 and
\* whose viewers have just been sent a duration of 0, after the clock has moved
C12_Witness ==
  \E id \in DOMAIN timers :
    /\ ~timers[id].isRunning
    /\ timers[id].duration = 0
    /\ timers[id].originalDuration = 0
    /\ now > Period
    /\ \E i \in Sent(outbox, "timer-update") : outbox[i].body.duration = 0

\* ----------------------------------------------------------------- C13
\* C13: a timer that is not running has no startTime (null), in every
\* reachable state.
C13_IdleHasNoStartTime ==
  \A id \in DOMAIN timers : ~timers[id].isRunning => timers[id].startTime = 0

\* ----------------------------------------------------------------- C14
\* the snapshots a step sent
Snapshots(box) ==
  Sent(box, "timer-update") \cup Sent(box, "timer-joined") \cup Sent(box, "timer-created")

\* C14: every snapshot sent for a running timer (timer-update, timer-joined,
\* timer-created) carries remaining = duration - floor((now - startTime) / 1s)
\* as of the time it is sent.
C14_RunningSnapshotFresh ==
  \A i \in Snapshots(outbox) :
    outbox[i].body.isRunning =>
      /\ MapHas(timers, outbox[i].body.id)
      /\ timers[outbox[i].body.id].startTime # 0
      /\ outbox[i].body.remaining =
           outbox[i].body.duration
             - (now - timers[outbox[i].body.id].startTime) \div Period

\* a socket has joined a running timer one second after its start, before the
\* interval callback due at that time has run: the snapshot it got counts the
\* second
C14_Witness ==
  \E i \in Sent(outbox, "timer-joined") :
    LET t == timers[outbox[i].body.id]
    IN /\ outbox[i].body.isRunning
       /\ now = t.startTime + Period
       /\ Due(t)
       /\ outbox[i].body.remaining = outbox[i].body.duration - 1

\* ----------------------------------------------------------------- C15
\* C15: a timer's interval is set if and only if the timer is in the registry
\* and running, and no Timer outside the registry has one; a start-timer on a
\* running timer changes nothing of it (no second interval, same startTime),
\* and a start that takes effect never overwrites an interval that is set.
C15_OneTickSource ==
  /\ [](/\ detached = << >>
        /\ \A id \in DOMAIN timers : (timers[id].interval # 0) <=> timers[id].isRunning)
  /\ [][\A id \in (DOMAIN timers) \cap (DOMAIN timers'), s \in sockets, c \in ControllerIds :
          (Authorized(id, c) /\ StartTimer(s, id, c)) =>
            IF timers[id].isRunning
            THEN timers'[id] = timers[id]
            ELSE timers[id].interval = 0]_vars

\* a timer that has been running for a second or more and has viewers, after
\* a step that sent its owner the timer list and no timer-update: the answer
\* to a start-timer that did nothing
C15_Witness ==
  \E id \in DOMAIN timers :
    /\ timers[id].isRunning
    /\ timers[id].interval # 0
    /\ now >= timers[id].startTime + Period
    /\ timers[id].connectedDevices # << >>
    /\ Len(outbox) = 1
    /\ outbox[1].ev = "timer-list"
    /\ outbox[1].body # << >>

\* ----------------------------------------------------------------- C16
\* C16: once a timer has been deleted from the registry no interval callback
\* runs for it and no timer-update carries its id, whatever steps follow; the
\* delete leaves no Timer with an interval outside the registry.
C16_NoTickAfterDelete ==
  [][/\ \A id \in 1..(nextId - 1) :
          ~MapHas(timers, id) =>
            /\ ~Tick(id)
            /\ \A i \in Snapshots(outbox') : outbox'[i].body.id # id
     /\ \A id \in (DOMAIN timers) \ (DOMAIN timers') : ~MapHas(detached', id)]_vars

\* a timer has just been deleted, its viewer told so, at a time by which it
\* can have been started and have ticked
C16_Witness ==
  /\ \E j \in Sent(outbox, "timer-deleted") : ~MapHas(timers, outbox[j].body.timerId)
  /\ Sent(outbox, "timer-list") # {}
  /\ detached = << >>
  /\ now >= Period + 2 * Step

\* ----------------------------------------------------------------- C17
\* C17: an interval callback of a running timer leaves it running with its
\* interval set and its duration and startTime unchanged, also when the
\* recomputed remaining is 0 or negative; remaining never grows by it; a
\* running timer stops only by pause, reset, set-timer or adjust-timer.
C17_TickNeverStops ==
  [][\A id \in (DOMAIN timers) \cap (DOMAIN timers') :
       LET t == timers[id]
           t2 == timers'[id]
       IN /\ (Tick(id) /\ t.isRunning) =>
               /\ t2.isRunning
               /\ t2.interval # 0
               /\ t2.duration = t.duration
               /\ t2.startTime = t.startTime
               /\ t2.remaining = t.duration - (now - t.startTime) \div Period
               /\ t2.remaining <= t.remaining
          /\ (t.isRunning /\ ~t2.isRunning) =>
               \E s \in sockets, c \in ControllerIds :
                 \/ PauseTimer(s, id, c)
                 \/ ResetTimer(s, id, c)
                 \/ \E d \in TimerEnv.durations : SetTimer(s, id, d, c)
                 \/ \E n \in TimerEnv.deltas : AdjustTimer(s, id, n, c)]_vars

\* a running timer whose interval callback has just sent a remaining below 0
C17_Witness ==
  \E id \in DOMAIN timers :
    /\ timers[id].isRunning
    /\ timers[id].remaining < 0
    /\ timers[id].interval > now
    /\ \E i \in Sent(outbox, "timer-update") :
         outbox[i].body.isRunning /\ outbox[i].body.remaining < 0

\* ----------------------------------------------------------------- C18
\* the timer-update messages of a step that carry the state of timer id
UpdatesOf(box, id) == {i \in Sent(box, "timer-update") : box[i].body.id = id}

\* a step that is an effective mutation of timer id or an interval callback
\* of it, with the commands drawn from what the environment E sends
Effective(id, E) ==
  \/ Tick(id)
  \/ \E s \in sockets : Disconnect(s) /\ MapHas(deviceToTimer, s) /\ deviceToTimer[s] = id
  \/ ~MapHas(timers, id) /\ timers'[id].maxConnectionsAllowed > 0
  \/ /\ MapHas(timers, id)
     /\ \E s \in sockets, c \in ControllerIds :
          \/ \E cap \in E.capacities :
               /\ SetSize(timers[id].connectedDevices)
                    < Coalesce(cap, timers[id].maxConnectionsAllowed)
               /\ JoinTimer(s, id, c, cap) \/ ViewTimer(s, id, c, cap)
          \/ /\ Authorized(id, c)
             /\ \/ ~timers[id].isRunning /\ timers[id].remaining > 0 /\ StartTimer(s, id, c)
                \/ timers[id].isRunning /\ PauseTimer(s, id, c)
                \/ ResetTimer(s, id, c)
                \/ ClearMessageCmd(s, id, c)
                \/ \E d \in E.durations : SetTimer(s, id, d, c)
                \/ \E n \in E.deltas : AdjustTimer(s, id, n, c)
                \/ \E m \in E.messages : UpdateMessageCmd(s, id, m, c)
                \/ \E st \in E.stylings : UpdateStylingCmd(s, id, st, c)
                \/ \E f \in E.flashes : ToggleFlashCmd(s, id, f, c)

\* what C18 asks of a step, for the commands of the environment E
Broadcasts(E) ==
  \A id \in DOMAIN timers' :
    LET t2 == timers'[id]
        upd == UpdatesOf(outbox', id)
        before == IF MapHas(timers, id) THEN timers[id].connectedDevices ELSE << >>
        stale == SetMembers(before) \ sockets
    IN Effective(id, E) =>
         /\ {outbox'[i].to : i \in upd} = SetMembers(t2.connectedDevices)
         /\ Cardinality(upd) = SetSize(t2.connectedDevices)
         /\ (SetMembers(before) \cap sockets') \subseteq SetMembers(t2.connectedDevices)
         /\ \A i \in upd :
              /\ [outbox'[i].body EXCEPT !.connectedCount = 0]
                   = [GetState(t2) EXCEPT !.connectedCount = 0]
              /\ outbox'[i].body.connectedCount >= SetSize(t2.connectedDevices)
              /\ outbox'[i].body.connectedCount
                   <= SetSize(t2.connectedDevices) + Cardinality(stale)

\* C18: every effective mutation of a timer (start, pause, reset, setDuration,
\* adjustTime, updateMessage, clearMessage, updateStyling, toggleFlash, an
\* accepted addDevice, removeDevice) and every interval callback of it sends,
\* in the same step, one timer-update with the timer's state after the
\* mutation to each connected device whose socket resolves (connectedCount
\* counts the devices in the set when the message is sent).
C18_MutationBroadcasts == [][Broadcasts(ViewerEnv)]_vars

\* an interval callback has just sent the running timer's state, one second
\* into its run, to two viewers
C18_Witness ==
  /\ Len(outbox) = 2
  /\ outbox[1].to # outbox[2].to
  /\ \A i \in 1..2 :
       /\ outbox[i].ev = "timer-update"
       /\ outbox[i].body.isRunning
       /\ outbox[i].body.remaining = outbox[i].body.duration - 1
       /\ outbox[i].body.connectedCount = 2

\* ----------------------------------------------------------------- C19
\* C19: after a step that ran the fan-out of a timer, the timer's connected
\* devices are all sockets that resolve: every device whose socket is gone
\* has been removed, every device whose socket resolves is still in the set
\* and has been sent the timer-update, and the step sent nothing but the
\* usual messages, to sockets that resolve.
C19_StaleEvicted ==
  [][\A id \in (DOMAIN timers) \cap (DOMAIN timers') :
       LET upd == UpdatesOf(outbox', id)
           before == SetMembers(timers[id].connectedDevices)
           after == SetMembers(timers'[id].connectedDevices)
       IN (timers'[id].connectedDevices # timers[id].connectedDevices \/ upd # {}) =>
            /\ after \subseteq sockets'
            /\ (before \cap sockets') \subseteq after
            /\ {outbox'[i].to : i \in upd} = after
            /\ \A i \in 1..Len(outbox') :
                 /\ outbox'[i].to \in sockets'
                 /\ outbox'[i].ev \in {"timer-update", "timer-list",
                                       "timer-joined", "timer-created"}]_vars

\* a timer-update has just been sent that counts more devices than the timer
\* has now: a device later in the same fan-out was removed for want of a socket
C19_Witness ==
  \E i \in Sent(outbox, "timer-update") :
    /\ MapHas(timers, outbox[i].body.id)
    /\ outbox[i].body.connectedCount
         > SetSize(timers[outbox[i].body.id].connectedDevices)
    /\ SetHas(timers[outbox[i].body.id].connectedDevices, outbox[i].to)

\* ----------------------------------------------------------------- C20
\* a join-timer or view-timer step of socket s on timer id
Admission(s, id, c) ==
  \E cap \in AdmissionEnv.capacities : JoinTimer(s, id, c, cap) \/ ViewTimer(s, id, c, cap)

\* C20: a join-timer or view-timer with a non-empty identity c on a timer of
\* the registry is admitted exactly when the timer has room, whoever owns
\* the timer (it is never dropped, answered timer-not-found or refused for
\* the identity), and the admitted socket is added to the sockets tracked
\* under c and under no other identity.
C20_JoinNeedsNoOwnership ==
  [][/\ \A i \in Sent(outbox', "timer-joined") :
          LET s == outbox'[i].to
              id == outbox'[i].body.id
          IN /\ MapHas(timers, id)
             /\ SetSize(timers[id].connectedDevices) < timers'[id].maxConnectionsAllowed
             /\ SetHas(timers'[id].connectedDevices, s)
             /\ deviceToTimer'[s] = id
             /\ \E c \in ControllerIds : Admission(s, id, c)
             /\ \A c \in ControllerIds :
                  Admission(s, id, c) =>
                    /\ SetHas(controllerToSocket'[c], s)
                    /\ \A c2 \in ControllerIds \ {c} :
                         controllerToSocket'[c2] = controllerToSocket[c2]
     /\ \A i \in Sent(outbox', "timer-full") :
          LET id == outbox'[i].body.timerId
          IN /\ MapHas(timers, id)
             /\ SetSize(timers[id].connectedDevices) >= timers'[id].maxConnectionsAllowed
             /\ timers'[id].connectedDevices = timers[id].connectedDevices
             /\ UNCHANGED << deviceToTimer, controllerToSocket >>
     /\ \A i \in Sent(outbox', "timer-not-found") : ~MapHas(timers, outbox'[i].body.timerId)
     /\ (outbox' = << >> /\ UNCHANGED data) =>
          \A s \in sockets, id \in DOMAIN timers, c \in ControllerIds : ~Admission(s, id, c)]_vars

\* a socket has just been admitted to a timer and is tracked under an
\* identity that is not the owner's, and not under the owner's
C20_Witness ==
  \E i \in Sent(outbox, "timer-joined") :
    LET s == outbox[i].to
        owner == timers[outbox[i].body.id].controllerId
    IN /\ ~SetHas(controllerToSocket[owner], s)
       /\ \E c \in ControllerIds \ {owner} : SetHas(controllerToSocket[c], s)

\* ----------------------------------------------------------------- C21
\* the timers of the registry that the owner of timer id owns and that are
\* not younger than it
OwnedUpTo(id) ==
  {u \in OwnedBy(timers, timers[id].controllerId) : u <= id}

\* C21: a create-timer of controller c that supplies a number N (0 included)
\* as maxTimersAllowed while c owns N or more timers creates nothing, changes no map and sends
\* the requester limit-exceeded{type: timers}; a timer is only created while
\* its owner owns fewer timers than the N supplied, so that the owner never
\* owns more timers than the N of the youngest of them.
C21_QuotaRejects ==
  /\ [](\A id \in DOMAIN timers :
          Cardinality(OwnedUpTo(id)) <= timers[id].maxTimersAllowed)
  /\ [][/\ \A id \in (DOMAIN timers') \ (DOMAIN timers) :
             Cardinality(OwnedBy(timers, timers'[id].controllerId))
               < timers'[id].maxTimersAllowed
        /\ \A s \in sockets, c \in ControllerIds, q \in {n \in QuotaEnv.quotas : n >= 0} :
             ( /\ Cardinality(OwnedBy(timers, c)) >= q
               /\ \E d \in QuotaEnv.durations, cap \in QuotaEnv.capacities,
                     st \in QuotaEnv.stylings :
                    CreateTimer(s, "Demo", d, cap, q, c, st) ) =>
               /\ UNCHANGED data
               /\ Len(outbox') = 1
               /\ outbox'[1].to = s
               /\ outbox'[1].ev = "limit-exceeded"
               /\ outbox'[1].body.type = "timers"
               /\ outbox'[1].body.max = q]_vars

\* a create-timer with a quota of 2 has just been refused to a socket of a
\* controller that owns two timers, while the other controller owns one
C21_Witness ==
  /\ Len(outbox) = 1
  /\ outbox[1].ev = "limit-exceeded"
  /\ outbox[1].body.type = "timers"
  /\ outbox[1].body.max = 2
  /\ \E c \in ControllerIds :
       /\ Cardinality(OwnedBy(timers, c)) = 2
       /\ SetHas(controllerToSocket[c], outbox[1].to)
       /\ \E c2 \in ControllerIds \ {c} : Cardinality(OwnedBy(timers, c2)) = 1

\* ----------------------------------------------------------------- C22
\* C22: adjust-timer by delta on a running timer with e elapsed seconds sets
\* duration to max(0, duration + delta) and remaining to max(0, that - e); at
\* remaining 0 the timer ends not running, without interval and startTime,
\* its duration the new value and originalDuration unchanged; otherwise it
\* stays running with the same startTime and interval.  The elapsed seconds
\* may be counted at either of the two clock reads of the handler.
C22_AdjustWhileRunning ==
  [][\A id \in (DOMAIN timers) \cap (DOMAIN timers'), s \in sockets, c \in ControllerIds,
        n \in TimerEnv.deltas :
       LET t == timers[id]
           t2 == timers'[id]
           newDuration == IF t.duration + n > 0 THEN t.duration + n ELSE 0
       IN (Authorized(id, c) /\ t.isRunning /\ AdjustTimer(s, id, n, c)) =>
            \E e \in {(now - t.startTime) \div Period, (now' - t.startTime) \div Period} :
              LET rem == IF newDuration - e > 0 THEN newDuration - e ELSE 0
              IN /\ t2.duration = newDuration
                 /\ t2.remaining = rem
                 /\ t2.originalDuration = t.originalDuration
                 /\ IF rem = 0
                    THEN ~t2.isRunning /\ t2.interval = 0 /\ t2.startTime = 0
                    ELSE /\ t2.isRunning
                         /\ t2.interval = t.interval
                         /\ t2.startTime = t.startTime
                 /\ \A i \in Sent(outbox', "timer-update") :
                      /\ outbox'[i].body.duration = newDuration
                      /\ outbox'[i].body.remaining = rem
                      /\ outbox'[i].body.isRunning = (rem # 0)]_vars

\* ----------------------------------------------------------------- C24
\* C24: a start-timer on a timer that is running, or whose remaining is 0 or
\* less, changes no field of the timer and sends no timer-update; so a timer
\* paused with a negative remaining starts again only after a reset,
\* set-timer or adjust-timer.
C24_StartNoOp ==
  [][\A id \in (DOMAIN timers) \cap (DOMAIN timers'), s \in sockets, c \in ControllerIds :
       ( /\ Authorized(id, c)
         /\ timers[id].isRunning \/ timers[id].remaining <= 0
         /\ StartTimer(s, id, c) ) =>
         /\ timers'[id] = timers[id]
         /\ Sent(outbox', "timer-update") = {}
         /\ Len(outbox') = 1
         /\ outbox'[1].ev = "timer-list"]_vars

\* a timer paused a second after its remaining reached 0 (remaining -1,
\* duration 1), after a step that only sent the timer list
C24_Witness ==
  \E id \in DOMAIN timers :
    /\ ~timers[id].isRunning
    /\ timers[id].remaining < 0
    /\ timers[id].duration > 0
    /\ timers[id].connectedDevices # << >>
    /\ Len(outbox) = 1
    /\ outbox[1].ev = "timer-list"

\* ----------------------------------------------------------------- C25
\* the fields of a Timer that the four presentation commands leave alone
Countdown(t) ==
  << t.id, t.name, t.duration, t.originalDuration, t.isRunning, t.startTime,
     t.interval, t.controllerId, t.maxConnectionsAllowed, t.maxTimersAllowed >>

Presentation(t) ==
  [ message |-> t.message, backgroundColor |-> t.backgroundColor,
    textColor |-> t.textColor, fontSize |-> t.fontSize,
    timerView |-> t.timerView, isFlashing |-> t.isFlashing ]

\* C25: update-message, clear-message, update-styling and toggle-flash change
\* only their own fields: update-styling keeps every styling field the
\* partial does not supply, and none of the four changes duration,
\* originalDuration, isRunning, startTime, the interval, the owner or the
\* capacity.
C25_PresentationOnly ==
  [][\A id \in (DOMAIN timers) \cap (DOMAIN timers'), s \in sockets, c \in ControllerIds :
       LET t == timers[id]
           t2 == timers'[id]
           p == Presentation(t)
       IN Authorized(id, c) =>
            /\ \A m \in ViewerEnv.messages :
                 UpdateMessageCmd(s, id, m, c) =>
                   /\ Countdown(t2) = Countdown(t)
                   /\ Presentation(t2) = [p EXCEPT !.message = m]
            /\ ClearMessageCmd(s, id, c) =>
                 /\ Countdown(t2) = Countdown(t)
                 /\ Presentation(t2) = [p EXCEPT !.message = ""]
            /\ \A f \in ViewerEnv.flashes :
                 ToggleFlashCmd(s, id, f, c) =>
                   /\ Countdown(t2) = Countdown(t)
                   /\ Presentation(t2) = [p EXCEPT !.isFlashing = f]
            /\ \A st \in ViewerEnv.stylings :
                 UpdateStylingCmd(s, id, st, c) =>
                   /\ Countdown(t2) = Countdown(t)
                   /\ t2.message = t.message
                   /\ t2.isFlashing = t.isFlashing
                   /\ \A k \in DOMAIN st :
                        Presentation(t2)[k] = IF st[k] = "" THEN p[k] ELSE st[k]]_vars

\* a running timer with a message and flashing whose text colour has just
\* been changed and sent, its other styling fields the defaults
C25_Witness ==
  \E id \in DOMAIN timers :
    /\ timers[id].isRunning
    /\ timers[id].message = "Hi"
    /\ timers[id].isFlashing
    /\ timers[id].textColor = "#000000"
    /\ timers[id].backgroundColor = "#1f2937"
    /\ timers[id].fontSize = "text-6xl"
    /\ timers[id].timerView = "normal"
    /\ \E i \in Sent(outbox, "timer-update") :
         outbox[i].body.textColor = "#000000" /\ outbox[i].body.isRunning

\* ----------------------------------------------------------------- C23
\* timer id runs and its interval callback may run now
Awaiting(id) ==
  /\ MapHas(timers, id)
  /\ timers[id].isRunning
  /\ Due(timers[id])

\* the callback has run and sent the state of timer id to every connected
\* device of it whose socket resolves, or the timer has stopped or gone
Served(id) ==
  \/ ~MapHas(timers, id)
  \/ ~timers[id].isRunning
  \/ /\ ~Due(timers[id])
     /\ \A s \in Viewers(id) \cap sockets :
          \E i \in UpdatesOf(outbox, id) :
            outbox[i].to = s /\ outbox[i].body.remaining = timers[id].remaining

\* C23: a running timer always has its next callback scheduled, no more than
\* a period ahead; while the timer stays running, every callback that falls
\* due is run and sends each socket that is a connected device of it a
\* timer-update with the state of the timer at that time: a socket that
\* stays connected is sent one every period, each sent once.
C23_ViewerKeepsReceiving ==
  /\ [](\A id \in DOMAIN timers :
          timers[id].isRunning =>
            /\ timers[id].interval > 0
            /\ timers[id].interval <= now + Period + Early)
  /\ \A id \in 1..TickerEnv.maxTimers : Awaiting(id) ~> Served(id)

\* the callback has just sent both viewers the state of the timer, two
\* seconds after its start, and is scheduled again
C23_Witness ==
  \E id \in DOMAIN timers :
    /\ timers[id].isRunning
    /\ now = timers[id].startTime + 2 * Period
    /\ timers[id].interval = now + Period
    /\ Cardinality({outbox[i].to : i \in UpdatesOf(outbox, id)}) = 2
    /\ \A i \in UpdatesOf(outbox, id) :
         outbox[i].body.remaining = outbox[i].body.duration - 2

\* ----------------------------------------------------------------- C26
\* C26: for every controller identity c the timer ids recorded as owned by c
\* are exactly the timers of the registry whose owner is c, and the owner of
\* a timer never changes while it is in the registry.
C26_IndexAgreesWithRegistry ==
  /\ [](\A c \in ControllerIds :
          /\ SetMembers(controllerTimers[c]) = OwnedBy(timers, c)
          /\ SetSize(controllerTimers[c]) = Cardinality(OwnedBy(timers, c)))
  /\ [][\A id \in (DOMAIN timers) \cap (DOMAIN timers') :
          timers'[id].controllerId = timers[id].controllerId]_vars

\* both controllers own a timer after an earlier timer has been deleted, and
\* the owner of one has just been sent its list
C26_Witness ==
  /\ \E id \in 1..(nextId - 1) : ~MapHas(timers, id)
  /\ \A c \in ControllerIds : OwnedBy(timers, c) # {}
  /\ \E i \in Sent(outbox, "timer-list") :
       \E c \in ControllerIds : ListedIds(outbox[i].body) = OwnedBy(timers, c)

\* ----------------------------------------------------------------- C27
\* a Timer without its connected devices
Fields(t) == [t EXCEPT !.connectedDevices = << >>]

\* C27: a command whose identity is not the owner of timer t changes no
\* field of t but its connected devices; a join-timer or view-timer of a
\* non-owner changes neither the capacity nor the countdown, message or
\* styling of t.
C27_NonOwnerChangesNothing ==
  [][\A s \in sockets, id \in (DOMAIN timers) \cap (DOMAIN timers'), c \in ControllerIds :
       ( /\ c # timers[id].controllerId
         /\ Admission(s, id, c) \/ MutatingCommand(s, id, c) ) =>
         Fields(timers'[id]) = Fields(timers[id])]_vars

\* ----------------------------------------------------------------- C28
\* C28: deviceToTimer maps socket s to timer t if and only if s is one of
\* t's connected devices.
C28_MapAgreesWithDevices ==
  \A s \in SocketIds, id \in DOMAIN timers :
    (MapHas(deviceToTimer, s) /\ deviceToTimer[s] = id)
      <=> SetHas(timers[id].connectedDevices, s)

\* ----------------------------------------------------------------- C29
\* C29: a delete-timer of timer A changes nothing of another timer B: B's
\* connected devices and state are the same, and so is every deviceToTimer
\* entry whose value is B.
C29_DeleteSparesOthers ==
  [][\A a \in (DOMAIN timers) \ (DOMAIN timers'), b \in DOMAIN timers' :
       /\ MapHas(timers, b)
       /\ timers'[b] = timers[b]
       /\ \A s \in DOMAIN deviceToTimer :
            deviceToTimer[s] = b =>
              MapHas(deviceToTimer', s) /\ deviceToTimer'[s] = b]_vars

\* ----------------------------------------------------------------- C30
\* C30: a join-timer or view-timer of a socket that is already a connected
\* device of the timer is answered with timer-joined, never with timer-full
\* or limit-exceeded, and leaves the connected devices as they are, however
\* full the timer is.
C30_RejoinIdempotent ==
  [][\A s \in sockets, id \in DOMAIN timers, c \in ControllerIds :
       (SetHas(timers[id].connectedDevices, s) /\ Admission(s, id, c)) =>
         /\ \E i \in Sent(outbox', "timer-joined") : outbox'[i].to = s
         /\ Sent(outbox', "timer-full") = {}
         /\ Sent(outbox', "limit-exceeded") = {}
         /\ timers'[id].connectedDevices = timers[id].connectedDevices]_vars

\* ----------------------------------------------------------------- C31
\* C31: the connectedCount of every timer-update a step sent to a socket that
\* is a connected device of the timer after the step is the number of
\* connected devices the timer then has, also when the fan-out removed
\* devices whose socket is gone.
C31_CountIsCurrent ==
  \A i \in Sent(outbox, "timer-update") :
    ( /\ MapHas(timers, outbox[i].body.id)
      /\ SetHas(timers[outbox[i].body.id].connectedDevices, outbox[i].to) ) =>
      outbox[i].body.connectedCount = SetSize(timers[outbox[i].body.id].connectedDevices)

\* ----------------------------------------------------------------- C32
\* a timer that pause() has stopped: not running, with the startTime of the
\* run that ended
Paused(t) == ~t.isRunning /\ t.startTime # 0

\* C32: a start-timer on a timer that a pause left with remaining = r > 0
\* starts a run of duration r from now; the callback that runs k seconds
\* after the start gives remaining = duration - k, so r - k; pause-timer and
\* start-timer leave originalDuration alone, and reset-timer restores
\* duration and remaining to it.
C32_PauseResume ==
  [][\A id \in (DOMAIN timers) \cap (DOMAIN timers') :
       LET t == timers[id]
           t2 == timers'[id]
       IN /\ (Tick(id) /\ t.isRunning /\ OnTheSecond(t)) =>
               /\ t2.remaining = t.duration - SecondsRun(t)
               /\ t2.originalDuration = t.originalDuration
          /\ \A s \in sockets, c \in ControllerIds :
               Authorized(id, c) =>
                 /\ (t.isRunning /\ PauseTimer(s, id, c)) =>
                      /\ Paused(t2)
                      /\ t2.originalDuration = t.originalDuration
                      /\ t2.remaining > 0 => t2.duration = t2.remaining
                 /\ (Paused(t) /\ t.remaining > 0 /\ StartTimer(s, id, c)) =>
                      /\ t2.isRunning
                      /\ t2.duration = t.remaining
                      /\ t2.remaining = t.remaining
                      /\ t2.startTime = now
                      /\ t2.interval = now + Period
                      /\ t2.originalDuration = t.originalDuration
                 /\ ResetTimer(s, id, c) =>
                      /\ t2.duration = t.originalDuration
                      /\ t2.remaining = t.originalDuration
                      /\ t2.originalDuration = t.originalDuration]_vars

\* a timer of original duration 2 runs from a duration of 1 and a start later
\* than the first second, and its callback has just sent remaining 0 a
\* second after that start
C32_Witness ==
  \E id \in DOMAIN timers :
    /\ timers[id].isRunning
    /\ timers[id].originalDuration = 2
    /\ timers[id].duration = 1
    /\ timers[id].startTime >= 2 * Period
    /\ now = timers[id].startTime + Period
    /\ timers[id].interval = now + Period
    /\ timers[id].remaining = 0
    /\ \E i \in Sent(outbox, "timer-update") :
         outbox[i].body.isRunning /\ outbox[i].body.remaining = 0

\* ----------------------------------------------------------------- C33
\* C33 as stated: a timer that is not running has remaining = duration.
C33_IdleRemainingIsDuration ==
  \A id \in DOMAIN timers :
    ~timers[id].isRunning => timers[id].remaining = timers[id].duration

\* C33 as amended: a timer that is not running has remaining = duration,
\* but for two cases: paused after its remaining passed zero it has
\* remaining = -duration, and stopped by an adjust-timer it has remaining 0
\* and the adjusted duration.
C33_IdleRemainingCases ==
  \A id \in DOMAIN timers :
    LET t == timers[id]
    IN ~t.isRunning =>
         \/ t.remaining = t.duration
         \/ Paused(t) /\ t.remaining < 0 /\ t.duration = -t.remaining
         \/ ~Paused(t) /\ t.remaining = 0 /\ t.duration > 0

\* a timer has just been paused a second after its remaining reached zero:
\* its viewers were sent remaining -1 and duration 1
C33_Witness ==
  \E id \in DOMAIN timers :
    /\ Paused(timers[id])
    /\ timers[id].remaining = -1
    /\ timers[id].duration = 1
    /\ \E i \in Sent(outbox, "timer-update") :
         /\ ~outbox[i].body.isRunning
         /\ outbox[i].body.remaining = -1
         /\ outbox[i].body.duration = 1

\* ----------------------------------------------------------------- C34
\* C34: with create-timer and set-timer supplying durations of 0 or more, the
\* duration and originalDuration of every timer are 0 or more in every
\* reachable state.
C34_DurationsNonNegative ==
  \A id \in DOMAIN timers :
    timers[id].duration >= 0 /\ timers[id].originalDuration >= 0

\* a timer whose run an adjust-timer has ended at duration 0, and a timer
\* paused with a negative remaining, are both reachable; this is the first
C34_Witness ==
  \E id \in DOMAIN timers :
    /\ ~timers[id].isRunning
    /\ timers[id].startTime = 0
    /\ timers[id].duration = 0
    /\ timers[id].originalDuration > 0
    /\ \E i \in Sent(outbox, "timer-update") : outbox[i].body.duration = 0

====
